---------------------------- MODULE Spec2Model ----------------------------
(***************************************************************************)
(* Model of netneurotools.datasets.fetchers: the dataset fetchers, the     *)
(* requests they hand to the fetch delegate (nilearn's _fetch_files) and   *)
(* the regrouping of the returned flat path list into a keyed bundle.      *)
(*                                                                         *)
(* A path is a sequence of path components (strings); op.join is the       *)
(* concatenation of component sequences.  A bundle is a function from key  *)
(* to value; a value is a record [kind, items] where items is the sequence *)
(* of paths the value is made of.                                          *)
(***************************************************************************)
EXTENDS Integers, Sequences, FiniteSets, TLC

(***************************************************************************)
(* Bounds of the model.                                                    *)
(***************************************************************************)
\* longest list of annotations handed to fetch_annotation
MaxList == 2

(***************************************************************************)
(* Python list primitives used by the fetchers.                            *)
(***************************************************************************)
Min(a, b) == IF a < b THEN a ELSE b

Max(a, b) == IF a > b THEN a ELSE b

\* a slice bound i of a list of length n, as Python normalises it
NormIdx(i, n) == IF i < 0 THEN Max(n + i, 0) ELSE Min(i, n)

\* s[start:stop:step] with 0-based bounds (negative bounds count from the end)
PySlice(s, start, stop, step) ==
    LET lo == NormIdx(start, Len(s))
        hi == NormIdx(stop, Len(s))
        cnt == IF hi <= lo THEN 0 ELSE ((hi - lo - 1) \div step) + 1
    IN  [k \in 1..cnt |-> s[lo + (k - 1) * step + 1]]

\* range(start, stop, step) for step > 0
PyRange(start, stop, step) ==
    LET cnt == IF stop <= start THEN 0 ELSE ((stop - start - 1) \div step) + 1
    IN  [k \in 1..cnt |-> start + (k - 1) * step]

\* itertools.chain.from_iterable
RECURSIVE Chain(_)
Chain(ss) == IF ss = <<>> THEN <<>> ELSE Head(ss) \o Chain(Tail(ss))

\* zip(a, b): as long as the shorter of the two
Zip(a, b) == [i \in 1..Min(Len(a), Len(b)) |-> <<a[i], b[i]>>]

\* dict(pairs): the last pair of a key wins
Dict(pairs) ==
    [k \in {pairs[i][1] : i \in DOMAIN pairs} |->
        pairs[CHOOSE i \in DOMAIN pairs :
                /\ pairs[i][1] = k
                /\ \A j \in DOMAIN pairs : j > i => pairs[j][1] # k][2]]

\* Bunch(**dict(zip(keys, data)))
Bunch(keys, data) == Dict(Zip(keys, data))

\* [(a, b, c) for a in A for b in B for c in C]: the order in which a
\* comprehension over three lists goes through them
For3(A, B, C) ==
    [n \in 1..(Len(A) * Len(B) * Len(C)) |->
        <<A[((n - 1) \div (Len(B) * Len(C))) + 1],
          B[(((n - 1) \div Len(C)) % Len(B)) + 1],
          C[((n - 1) % Len(C)) + 1]>>]

\* [(a, b) for a in A for b in B]
For2(A, B) ==
    [n \in 1..(Len(A) * Len(B)) |->
        <<A[((n - 1) \div Len(B)) + 1], B[((n - 1) % Len(B)) + 1]>>]

\* op.join of two relative paths
Join(a, b) == a \o b

(***************************************************************************)
(* Values of a bundle.                                                     *)
(***************************************************************************)
\* a plain file path
File(p) == [kind |-> "file", items |-> <<p>>]

\* ANNOT(*s): the namedtuple Surface(lh, rh); s must hold exactly two paths
ANNOT(s) == [kind |-> "Surface", items |-> <<s[1], s[2]>>]

\* a Python list of paths
PathList(s) == [kind |-> "list", items |-> s]

\* the parsed content of the files ps (json.load, np.loadtxt, read, hstack)
Loaded(how, ps) == [kind |-> how, items |-> ps]

(***************************************************************************)
(* The dataset registry behind _get_dataset_info (datasets/utils.py and    *)
(* its JSON file are not part of the sources at hand): for every dataset   *)
(* name the url and md5 of its archive, per version where the dataset is   *)
(* versioned.  The entries of ds-connectomes and ds-annotations are        *)
(* representative ones.                                                    *)
(***************************************************************************)
Entry(name, sel) ==
    [url |-> "https://files.osf.io/" \o name \o "/" \o sel,
     md5 |-> "md5:" \o name \o "/" \o sel]

ConnectomeEntries ==
    [d \in {"celegans", "drosophila", "mouse"} |->
        [url |-> Entry("ds-connectomes", d).url,
         md5 |-> Entry("ds-connectomes", d).md5,
         keys |-> CASE d = "celegans" -> <<"conn", "dist", "labels">>
                    [] d = "drosophila" -> <<"conn", "coords", "labels", "networks">>
                    [] d = "mouse" -> <<"acronyms", "conn", "dist", "labels">>]]

AnnotationEntries ==
    [a \in {"Myelin_T1wT2w", "abagen_genepc1"} |->
        [url |-> Entry("ds-annotations", a).url,
         md5 |-> Entry("ds-annotations", a).md5,
         density |-> IF a = "abagen_genepc1" THEN "10k" ELSE "164k",
         desc |-> "annotation " \o a]]

PauliEntries ==
    [i \in 1..3 |->
        LET f == <<"atl-Pauli2018_space-MNI152NLin2009cAsym_hemi-both_probabilistic.nii.gz",
                   "atl-Pauli2018_space-MNI152NLin2009cAsym_hemi-both_deterministic.nii.gz",
                   "atl-Pauli2018_space-MNI152NLin2009cAsym_info.csv">>[i]
        IN  [name |-> <<"atl-pauli2018", f>>,
             url |-> Entry("atl-pauli2018", f).url,
             md5 |-> Entry("atl-pauli2018", f).md5]]

OsfJson ==
    ("atl-cammoun2012" :>
        [v \in {"gcs", "fsaverage", "fsaverage5", "fsaverage6", "fslr32k",
                "MNI152NLin2009aSym"} |-> Entry("atl-cammoun2012", v)])
    @@ ("tpl-conte69" :> Entry("tpl-conte69", ""))
    @@ ("atl-pauli2018" :> PauliEntries)
    @@ ("tpl-fsaverage" :>
        [v \in {"fsaverage", "fsaverage3", "fsaverage4", "fsaverage5",
                "fsaverage6"} |-> Entry("tpl-fsaverage", v)])
    @@ ("ds-connectomes" :> ConnectomeEntries)
    @@ ("ds-vazquez_rodriguez2019" :> Entry("ds-vazquez_rodriguez2019", ""))
    @@ ("atl-schaefer2018" :>
        [v \in {"fsaverage", "fsaverage5", "fsaverage6", "fslr32k"} |->
            Entry("atl-schaefer2018", v)])
    @@ ("atl-voneconomo_koskinas" :> Entry("atl-voneconomo_koskinas", ""))
    @@ ("ds-annotations" :> AnnotationEntries)

\* sorted(d.keys()) for the two registries that are listed (Python orders
\* strings by code point: upper case before lower case)
SortedKeys(d) ==
    LET all == <<"Myelin_T1wT2w", "abagen_genepc1", "celegans", "drosophila", "mouse">>
        RECURSIVE Keep(_)
        Keep(s) == IF s = <<>> THEN <<>>
                   ELSE IF Head(s) \in DOMAIN d THEN <<Head(s)>> \o Keep(Tail(s))
                   ELSE Keep(Tail(s))
    IN  Keep(all)

\* _get_data_dir(data_dir): the caller's directory, else $NNT_DATA, else ~/nnt-data
GetDataDir(data_dir, nntData) ==
    IF data_dir # "None" THEN <<data_dir>>
    ELSE IF nntData # "None" THEN <<nntData>>
    ELSE <<"~/nnt-data">>

\* the elements of a sequence
Elems(s) == {s[i] : i \in DOMAIN s}

(***************************************************************************)
(* What the fetchers share: the options and the request list handed to the *)
(* fetch delegate, and the pairing of consecutive paths.                   *)
(***************************************************************************)
\* variant: the options carry no checksum
OptsNoMd5sum(md5, move) == [uncompress |-> TRUE, move |-> move]

\* opts = {'uncompress': True, 'md5sum': info['md5'], 'move': ...}
Opts(md5, move) == [uncompress |-> TRUE, md5sum |-> md5, move |-> move]

\* url = info['url'] if url is None
UrlOr(url, info) == IF url = "None" THEN info.url ELSE url

\* variant: the file names are requested without the directory in front
RequestsNoPrefix(prefix, filenames, url, opts) ==
    [i \in DOMAIN filenames |->
        [path |-> filenames[i], url |-> url, opts |-> opts]]

\* [(op.join(prefix, f), url, opts) for f in filenames]
Requests(prefix, filenames, url, opts) ==
    [i \in DOMAIN filenames |->
        [path |-> Join(prefix, filenames[i]), url |-> url, opts |-> opts]]

\* variant: the pairs overlap (a step of 1 between the pairs)
PairUpOverlap(data, starts) ==
    [k \in DOMAIN starts |-> ANNOT(PySlice(data, k - 1, k + 1, 1))]

\* [ANNOT(*data[i:i + 2]) for i in starts]
PairUp(data, starts) ==
    [k \in DOMAIN starts |-> ANNOT(PySlice(data, starts[k], starts[k] + 2, 1))]

\* variant: the info file is found by its name and put last, wherever it is
PlainInfoLast(data) ==
    LET IsInfo(p) == p[Len(p)] = "atl-Cammoun2012_space-MNI152NLin2009aSym_info.csv"
        r == SelectSeq(data, LAMBDA p : ~IsInfo(p)) \o SelectSeq(data, IsInfo)
    IN  [i \in DOMAIN r |-> File(r[i])]

\* a list of paths as bundle values, one per path
Plain(data) == [i \in DOMAIN data |-> File(data[i])]

Hemis == <<"L", "R">>

(***************************************************************************)
(* fetch_cammoun2012                                                       *)
(***************************************************************************)
CammounVersions ==
    <<"gcs", "fsaverage", "fsaverage5", "fsaverage6", "fslr32k",
      "MNI152NLin2009aSym">>

\* variant: the deprecated selectors are not rewritten
CammounAliasNone(version) == version

\* the deprecated selectors 'surface' and 'volume' are rewritten first
CammounAlias(version) ==
    IF version = "surface" THEN "fsaverage"
    ELSE IF version = "volume" THEN "MNI152NLin2009aSym"
    ELSE version

CammounKeys == <<"scale033", "scale060", "scale125", "scale250", "scale500">>

\* res[-3:] of an entry of keys
Last3(res) ==
    CASE res = "scale033" -> "033" [] res = "scale060" -> "060"
      [] res = "scale125" -> "125" [] res = "scale250" -> "250"
      [] res = "scale500" -> "500" [] res = "info" -> "nfo"

\* res[5:] of an entry of keys or of a name of the split scale
From5(res) ==
    CASE res = "scale500v1" -> "500v1" [] res = "scale500v2" -> "500v2"
      [] res = "scale500v3" -> "500v3" [] res = "info" -> ""
      [] OTHER -> Last3(res)

CammounFilenames(version, keys) ==
    IF version = "MNI152NLin2009aSym" THEN
        LET c == For2(keys, <<".nii.gz">>)
        IN  [n \in DOMAIN c |->
                <<"atl-Cammoun2012_space-MNI152NLin2009aSym_res-" \o Last3(c[n][1])
                  \o "_deterministic" \o c[n][2]>>]
            \o << <<"atl-Cammoun2012_space-MNI152NLin2009aSym_info.csv">> >>
    ELSE IF version = "fslr32k" THEN
        LET c == For3(keys, Hemis, <<".label.gii">>)
        IN  [n \in DOMAIN c |->
                <<"atl-Cammoun2012_space-fslr32k_res-" \o Last3(c[n][1])
                  \o "_hemi-" \o c[n][2] \o "_deterministic" \o c[n][3]>>]
    ELSE IF version \in {"fsaverage", "fsaverage5", "fsaverage6"} THEN
        LET c == For3(keys, Hemis, <<".annot">>)
        IN  [n \in DOMAIN c |->
                <<"atl-Cammoun2012_space-" \o version \o "_res-" \o Last3(c[n][1])
                  \o "_hemi-" \o c[n][2] \o "_deterministic" \o c[n][3]>>]
    ELSE
        LET c == For3(PySlice(keys, 0, -1, 1)
                        \o <<"scale500v1", "scale500v2", "scale500v3">>,
                      Hemis, <<".gcs", ".ctab">>)
        IN  [n \in DOMAIN c |->
                <<"atl-Cammoun2012_res-" \o From5(c[n][1]) \o "_hemi-" \o c[n][2]
                  \o "_probabilistic" \o c[n][3]>>]

CammounRequests(version, keys, url, reg) ==
    LET info == reg["atl-cammoun2012"][version]
    IN  Requests(<<"atl-cammoun2012", version>>, CammounFilenames(version, keys),
                 UrlOr(url, info), Opts(info.md5, "atl-cammoun2012.tar.gz"))

\* keys += ['info'] for the volumetric version
CammounKeysAfter(version, keys) ==
    IF version = "MNI152NLin2009aSym" THEN keys \o <<"info">> ELSE keys

\* variant: the three files of the last scale are not merged
CammounRegroupNoMerge(version, data) ==
    LET even == PySlice(data, 0, Len(data), 2)
        starts == PyRange(0, Len(data) \div 2, 2)
    IN  IF version = "MNI152NLin2009aSym" THEN Plain(data)
        ELSE IF version = "gcs"
        THEN [k \in DOMAIN starts |->
                PathList(PySlice(even, starts[k], starts[k] + 2, 1))]
        ELSE PairUp(data, PyRange(0, Len(data), 2))

\* the regrouping of the flat list the delegate returned
CammounRegroup(version, data) ==
    IF version = "MNI152NLin2009aSym" THEN Plain(data)
    ELSE IF version \in {"fslr32k", "fsaverage", "fsaverage5", "fsaverage6"} THEN
        PairUp(data, PyRange(0, Len(data), 2))
    ELSE
        LET even == PySlice(data, 0, Len(data), 2)
            starts == PyRange(0, Len(data) \div 2, 2)
            groups == [k \in DOMAIN starts |->
                          PySlice(even, starts[k], starts[k] + 2, 1)]
            merged == PySlice(groups, 0, -3, 1)
                      \o <<Chain(PySlice(groups, -3, Len(groups), 1))>>
        IN  [k \in DOMAIN merged |-> PathList(merged[k])]

(***************************************************************************)
(* fetch_conte69                                                           *)
(***************************************************************************)
ConteKeys == <<"midthickness", "inflated", "vinflated">>

ConteFilenames(keys) ==
    LET c == For2(keys, Hemis)
    IN  [n \in DOMAIN c |->
            <<"tpl-conte69",
              "tpl-conte69_space-MNI305_variant-fsLR32k_" \o c[n][1] \o "."
              \o c[n][2] \o ".surf.gii">>]
        \o << <<"tpl-conte69", "template_description.json">> >>

ConteRequests(keys, url, reg) ==
    LET info == reg["tpl-conte69"]
    IN  Requests(<<>>, ConteFilenames(keys), UrlOr(url, info),
                 Opts(info.md5, "tpl-conte69.tar.gz"))

\* data[-1] = json.load(...); hemispheres bundled; zip(keys + ['info'], data)
ConteRegroup(data) ==
    PairUp(PySlice(data, 0, -1, 1), PyRange(0, 6, 2))
    \o <<Loaded("json", PySlice(data, -1, Len(data), 1))>>

ConteKeysAfter(keys) == keys \o <<"info">>

(***************************************************************************)
(* fetch_pauli2018                                                         *)
(***************************************************************************)
PauliKeys == <<"probabilistic", "deterministic", "info">>

\* (i['name'], i['url'], dict(md5sum=i['md5'], move=i['name'])) for i in info
PauliRequests(reg) ==
    LET info == reg["atl-pauli2018"]
    IN  [i \in DOMAIN info |->
            [path |-> info[i].name, url |-> info[i].url,
             opts |-> [md5sum |-> info[i].md5, move |-> info[i].name]]]

(***************************************************************************)
(* fetch_fsaverage                                                         *)
(***************************************************************************)
FsaverageVersions ==
    <<"fsaverage", "fsaverage3", "fsaverage4", "fsaverage5", "fsaverage6">>

FsaverageKeys == <<"orig", "white", "smoothwm", "pial", "inflated", "sphere">>

\* variant: the hemispheres are the outer loop, the surfaces the inner one
FsaverageFilenamesHemiFirst(version, keys) ==
    LET c == For2(<<"lh", "rh">>, keys)
    IN  [n \in DOMAIN c |-> <<version, "surf", c[n][1] \o "." \o c[n][2]>>]

\* op.join(version, 'surf', '{}.{}'.format(hemi, surf))
FsaverageFilenames(version, keys) ==
    LET c == For2(keys, <<"lh", "rh">>)
    IN  [n \in DOMAIN c |-> <<version, "surf", c[n][2] \o "." \o c[n][1]>>]

FsaverageRequests(version, keys, url, reg) ==
    LET info == reg["tpl-fsaverage"][version]
    IN  Requests(<<"tpl-fsaverage">>, FsaverageFilenames(version, keys),
                 UrlOr(url, info), Opts(info.md5, "tpl-fsaverage.tar.gz"))

\* the FreeSurfer subjects directory check_fs_subjid returns when it finds
\* the subject
SubjectsDir == <<"$SUBJECTS_DIR">>

\* data = [op.join(data_dir, f) for f in filenames] on a successful lookup
FsaverageLocal(version, keys) ==
    LET fn == FsaverageFilenames(version, keys)
    IN  [i \in DOMAIN fn |-> Join(SubjectsDir, fn[i])]

FsaverageRegroup(keys, data) == PairUp(data, PyRange(0, Len(keys) * 2, 2))

(***************************************************************************)
(* fetch_connectome                                                        *)
(***************************************************************************)
\* available_connectomes()
AvailableConnectomes(reg) == SortedKeys(reg["ds-connectomes"])

ConnectomeFilenames(dataset, info) ==
    [i \in DOMAIN info.keys |-> <<dataset, info.keys[i] \o ".csv">>]
    \o << <<dataset, "ref.txt">> >>

ConnectomeRequests(dataset, url, reg) ==
    LET info == reg["ds-connectomes"][dataset]
    IN  Requests(<<>>, ConnectomeFilenames(dataset, info), UrlOr(url, info),
                 Opts(info.md5, dataset \o ".tar.gz"))

\* every table is loaded with np.loadtxt, the reference is read as text
ConnectomeRegroup(data) ==
    [i \in 1..(Len(data) - 1) |-> Loaded("loadtxt", <<data[i]>>)]
    \o <<Loaded("text", <<data[Len(data)]>>)>>

\* info['keys'] + ['ref']
ConnectomeKeysAfter(dataset, reg) ==
    reg["ds-connectomes"][dataset].keys \o <<"ref">>

(***************************************************************************)
(* fetch_vazquez_rodriguez2019                                             *)
(***************************************************************************)
VazquezRequests(url, reg) ==
    LET info == reg["ds-vazquez_rodriguez2019"]
    IN  Requests(<<>>, << <<"ds-vazquez_rodriguez2019", "rsquared_gradient.csv">> >>,
                 UrlOr(url, info), Opts(info.md5, "ds-vazquez_rodriguez2019.tar.gz"))

\* rsq, grad = np.loadtxt(data[0], ...).T
VazquezRegroup(data) ==
    <<Loaded("loadtxt.T[0]", <<data[1]>>), Loaded("loadtxt.T[1]", <<data[1]>>)>>

VazquezKeys == <<"rsquared", "gradient">>

(***************************************************************************)
(* fetch_schaefer2018                                                      *)
(***************************************************************************)
SchaeferVersions == <<"fsaverage", "fsaverage5", "fsaverage6", "fslr32k">>

SchaeferKeys ==
    LET c == For2(PyRange(100, 1001, 100), <<7, 17>>)
    IN  [n \in DOMAIN c |->
            ToString(c[n][1]) \o "Parcels" \o ToString(c[n][2]) \o "Networks"]

\* variant: the fslr32k version is taken to come in two hemispheres too
SchaeferHemispheresBoth(version) == Hemis

SchaeferHemispheres(version) == IF version = "fslr32k" THEN <<"LR">> ELSE Hemis

SchaeferSuffix(version) == IF version = "fslr32k" THEN "dlabel.nii" ELSE "annot"

SchaeferFilenames(version, keys) ==
    LET c == For2(keys, SchaeferHemispheres(version))
    IN  [n \in DOMAIN c |->
            <<"atl-Schaefer2018_space-" \o version \o "_hemi-" \o c[n][2]
              \o "_desc-" \o c[n][1] \o "_deterministic."
              \o SchaeferSuffix(version)>>]

SchaeferRequests(version, keys, url, reg) ==
    LET info == reg["atl-schaefer2018"][version]
    IN  Requests(<<"atl-schaefer2018", version>>, SchaeferFilenames(version, keys),
                 UrlOr(url, info), Opts(info.md5, "atl-schaefer2018.tar.gz"))

SchaeferRegroup(version, keys, data) ==
    IF SchaeferSuffix(version) = "annot"
    THEN PairUp(data, PyRange(0, Len(keys) * 2, 2))
    ELSE Plain(data)

(***************************************************************************)
(* fetch_hcp_standards                                                     *)
(***************************************************************************)
HcpUrl(url) ==
    IF url = "None"
    THEN "http://brainvis.wustl.edu/workbench/standard_mesh_atlases.zip"
    ELSE url

\* the options of this fetcher carry no md5sum
HcpRequests(url) ==
    Requests(<<"standard_mesh_atlases">>,
             << <<"L.sphere.32k_fs_LR.surf.gii">>, <<"R.sphere.32k_fs_LR.surf.gii">> >>,
             HcpUrl(url),
             [uncompress |-> TRUE, move |-> "standard_mesh_atlases.zip"])

(***************************************************************************)
(* fetch_voneconomo                                                        *)
(***************************************************************************)
VonEconomoKeys == <<"gcs", "ctab", "info">>

VonEconomoFilenames ==
    LET c == For2(Hemis, <<"gcs", "ctab">>)
    IN  [n \in DOMAIN c |->
            <<"atl-vonEconomoKoskinas_hemi-" \o c[n][1] \o "_probabilistic."
              \o c[n][2]>>]
        \o << <<"atl-vonEconomoKoskinas_info.csv">> >>

VonEconomoRequests(url, reg) ==
    LET info == reg["atl-voneconomo_koskinas"]
    IN  Requests(<<"atl-voneconomo_koskinas">>, VonEconomoFilenames,
                 UrlOr(url, info), Opts(info.md5, "atl-voneconomo_koskinas.tar.gz"))

\* variant: consecutive paths are paired, as in the other surface fetchers
VonEconomoRegroupPairs(data) ==
    <<ANNOT(PySlice(data, 0, 2, 1)), ANNOT(PySlice(data, 2, 4, 1)),
      File(data[Len(data)])>>

\* [ANNOT(*data[:-1:2])] + [ANNOT(*data[1:-1:2])] + [data[-1]]
VonEconomoRegroup(data) ==
    <<ANNOT(PySlice(data, 0, -1, 2)), ANNOT(PySlice(data, 1, -1, 2)),
      File(data[Len(data)])>>

(***************************************************************************)
(* fetch_annotation                                                        *)
(***************************************************************************)
\* available_annotations()
AvailableAnnotations(reg) == SortedKeys(reg["ds-annotations"])

\* annotation.lower().replace('_', '')
AnnotationDesc(annotation) ==
    CASE annotation = "Myelin_T1wT2w" -> "myelint1wt2w"
      [] annotation = "abagen_genepc1" -> "abagengenepc1"

AnnotationFilenames(annotation, info) ==
    LET desc == AnnotationDesc(annotation)
        den == info.density
    IN  [i \in DOMAIN Hemis |->
            <<annotation,
              "space-fsaverage_hemi-" \o Hemis[i] \o "_den-" \o den \o "_desc-"
              \o desc \o ".shape.gii">>]
        \o << <<annotation, "refs.txt">> >>

AnnotationRequests(annotation, url, reg) ==
    LET info == reg["ds-annotations"][annotation]
    IN  Requests(<<>>, AnnotationFilenames(annotation, info), UrlOr(url, info),
                 Opts(info.md5, annotation \o ".tar.gz"))

\* Bunch(**{'data': np.hstack(...data[:-1]...), 'ref': read(data[-1])})
AnnotationBunch(data) ==
    Bunch(<<"data", "ref">>,
          <<Loaded("hstack", PySlice(data, 0, -1, 1)),
            Loaded("text", <<data[Len(data)]>>)>>)

(***************************************************************************)
(* The fetch delegate, nilearn's _fetch_files(data_dir, files): one local  *)
(* path per requested relative path, in request order, or a failure.       *)
(***************************************************************************)
FetchFiles(dir, reqs) == [i \in DOMAIN reqs |-> Join(dir, reqs[i].path)]

(***************************************************************************)
(* State.                                                                  *)
(***************************************************************************)
VARIABLES
    pc,         \* "idle", "fetch" (inside the delegate), "iter" (between two
                \* annotations of a list), "done", "raised"
    args,       \* the arguments of the running call
    nntData,    \* the environment variable NNT_DATA ("None": not set)
    registry,   \* the dataset registry
    warned,     \* a DeprecationWarning was issued by the running call
    fsFound,    \* check_fs_subjid found the subject in the running call
    sel,        \* the selector the running (innermost) call works on
    keys,       \* the fetcher's local list `keys`
    files,      \* the requests handed to the delegate
    fetchDir,   \* the directory handed to the delegate
    data,       \* the flat list the delegate returned
    result,     \* what the call returned
    error,      \* what the call raised
    nfetch,     \* invocations of the delegate by the running call
    pending,    \* fetch_annotation on a list: the annotations still to fetch
    acc,        \* fetch_annotation on a list: the bundles fetched so far
    first       \* what the first completed call requested and returned

vars == <<pc, args, nntData, registry, warned, fsFound, sel, keys, files,
          fetchDir, data, result, error, nfetch, pending, acc, first>>

NoArgs == [fn |-> "", sel |-> "", isList |-> FALSE, list |-> <<>>,
           data_dir |-> "None", url |-> "None"]

NoResult == [kind |-> "none", bundle |-> <<>>, path |-> <<>>]

NoError == [type |-> "none", options |-> <<>>]

NoFirst == [set |-> FALSE, fn |-> "", sel |-> "", isList |-> FALSE, list |-> <<>>,
            fsFound |-> FALSE, paths |-> <<>>, keys |-> {}]

\* the inputs the calls are tried on
DataDirs == {"None", "/data"}

Urls == {"None", "https://mirror.example/archive"}

AnnotationNames == {"Myelin_T1wT2w", "abagen_genepc1", "bogus"}

AnnotationLists ==
    UNION {[1..n -> AnnotationNames] : n \in 0..MaxList}

Init ==
    /\ pc = "idle"
    /\ args = NoArgs
    /\ nntData \in {"None", "/env/nnt"}
    /\ registry = OsfJson
    /\ warned = FALSE
    /\ fsFound = FALSE
    /\ sel = ""
    /\ keys = <<>>
    /\ files = <<>>
    /\ fetchDir = <<>>
    /\ data = <<>>
    /\ result = NoResult
    /\ error = NoError
    /\ nfetch = 0
    /\ pending = <<>>
    /\ acc = <<>>
    /\ first = NoFirst

\* variant: the list is shared between the calls, so that what a call
\* appended to it is still there in the next call
FreshKeysShared(literal, old) ==
    IF Len(old) > Len(literal) /\ SubSeq(old, 1, Len(literal)) = literal
    THEN old ELSE literal

\* `keys = [...]` at the start of a fetcher: a new list in every call,
\* whatever the list of an earlier call (old) had become
FreshKeys(literal, old) == literal

\* the cache root of the running call
CacheRoot == GetDataDir(args.data_dir, nntData)

CallArgs(fn, s, data_dir, url) ==
    [fn |-> fn, sel |-> s, isList |-> FALSE, list |-> <<>>,
     data_dir |-> data_dir, url |-> url]

\* the call enters the delegate
Invoke(dir, reqs) ==
    /\ pc' = "fetch"
    /\ files' = reqs
    /\ fetchDir' = dir
    /\ nfetch' = nfetch + 1
    /\ UNCHANGED <<data, result, error>>

\* the call raises ValueError, its message listing options
RaiseValueError(options) ==
    /\ pc' = "raised"
    /\ error' = [type |-> "ValueError", options |-> options]
    /\ UNCHANGED <<files, fetchDir, nfetch, data, result>>

\* the call returns a Bunch
Return(ks, values) ==
    /\ pc' = "done"
    /\ result' = [kind |-> "Bunch", bundle |-> Bunch(ks, values), path |-> <<>>]
    /\ UNCHANGED error

(***************************************************************************)
(* The calls.  A call with a selector checks it first; a call that passes  *)
(* builds its requests and enters the delegate.                            *)
(***************************************************************************)
CammounInputs == Elems(CammounVersions) \cup {"surface", "volume", "bogus"}

fetch_cammoun2012 ==
    /\ pc = "idle"
    /\ \E version \in CammounInputs, data_dir \in DataDirs, url \in Urls :
        LET v == CammounAlias(version)
            ks == FreshKeys(CammounKeys, keys)
        IN  /\ args' = CallArgs("fetch_cammoun2012", version, data_dir, url)
            /\ warned' = (version \in {"surface", "volume"})
            /\ sel' = v
            /\ IF v \notin Elems(CammounVersions)
               THEN /\ RaiseValueError(CammounVersions)
                    /\ keys' = <<>>
               ELSE /\ keys' = ks
                    /\ Invoke(GetDataDir(data_dir, nntData),
                              CammounRequests(v, ks, url, registry))
    /\ UNCHANGED <<nntData, registry, fsFound, pending, acc, first>>

fetch_conte69 ==
    /\ pc = "idle"
    /\ \E data_dir \in DataDirs, url \in Urls :
        LET ks == FreshKeys(ConteKeys, keys)
        IN  /\ args' = CallArgs("fetch_conte69", "", data_dir, url)
            /\ keys' = ks
            /\ Invoke(GetDataDir(data_dir, nntData), ConteRequests(ks, url, registry))
    /\ UNCHANGED <<nntData, registry, warned, fsFound, sel, pending, acc, first>>

fetch_pauli2018 ==
    /\ pc = "idle"
    /\ \E data_dir \in DataDirs, url \in Urls :
        /\ args' = CallArgs("fetch_pauli2018", "", data_dir, url)
        /\ keys' = FreshKeys(PauliKeys, keys)
        /\ Invoke(GetDataDir(data_dir, nntData), PauliRequests(registry))
    /\ UNCHANGED <<nntData, registry, warned, fsFound, sel, pending, acc, first>>

FsaverageInputs == Elems(FsaverageVersions) \cup {"bogus"}

\* found: whether check_fs_subjid finds the subject or raises FileNotFoundError
fetch_fsaverage ==
    /\ pc = "idle"
    /\ \E version \in FsaverageInputs, data_dir \in DataDirs, url \in Urls,
          found \in BOOLEAN :
        LET ks == FreshKeys(FsaverageKeys, keys)
            local == FsaverageLocal(version, ks)
        IN  /\ args' = CallArgs("fetch_fsaverage", version, data_dir, url)
            /\ sel' = version
            /\ IF version \notin Elems(FsaverageVersions)
               THEN /\ RaiseValueError(FsaverageVersions)
                    /\ keys' = <<>>
                    /\ UNCHANGED fsFound
               ELSE /\ keys' = ks
                    /\ fsFound' = found
                    /\ IF found
                       THEN /\ data' = local
                            /\ Return(ks, FsaverageRegroup(ks, local))
                            /\ UNCHANGED <<files, fetchDir, nfetch>>
                       ELSE Invoke(GetDataDir(data_dir, nntData),
                                   FsaverageRequests(version, ks, url, registry))
    /\ UNCHANGED <<nntData, registry, warned, pending, acc, first>>

ConnectomeInputs == {"celegans", "drosophila", "mouse", "bogus"}

fetch_connectome ==
    /\ pc = "idle"
    /\ \E dataset \in ConnectomeInputs, data_dir \in DataDirs, url \in Urls :
        /\ args' = CallArgs("fetch_connectome", dataset, data_dir, url)
        /\ sel' = dataset
        /\ IF dataset \notin Elems(AvailableConnectomes(registry))
           THEN RaiseValueError(AvailableConnectomes(registry))
           ELSE Invoke(Join(GetDataDir(data_dir, nntData), <<"ds-connectomes">>),
                       ConnectomeRequests(dataset, url, registry))
    /\ keys' = <<>>
    /\ UNCHANGED <<nntData, registry, warned, fsFound, pending, acc, first>>

fetch_vazquez_rodriguez2019 ==
    /\ pc = "idle"
    /\ \E data_dir \in DataDirs, url \in Urls :
        /\ args' = CallArgs("fetch_vazquez_rodriguez2019", "", data_dir, url)
        /\ Invoke(GetDataDir(data_dir, nntData), VazquezRequests(url, registry))
    /\ keys' = <<>>
    /\ UNCHANGED <<nntData, registry, warned, fsFound, sel, pending, acc, first>>

SchaeferInputs == Elems(SchaeferVersions) \cup {"bogus"}

fetch_schaefer2018 ==
    /\ pc = "idle"
    /\ \E version \in SchaeferInputs, data_dir \in DataDirs, url \in Urls :
        LET ks == FreshKeys(SchaeferKeys, keys)
        IN  /\ args' = CallArgs("fetch_schaefer2018", version, data_dir, url)
            /\ sel' = version
            /\ IF version \notin Elems(SchaeferVersions)
               THEN /\ RaiseValueError(SchaeferVersions)
                    /\ keys' = <<>>
               ELSE /\ keys' = ks
                    /\ Invoke(GetDataDir(data_dir, nntData),
                              SchaeferRequests(version, ks, url, registry))
    /\ UNCHANGED <<nntData, registry, warned, fsFound, pending, acc, first>>

fetch_hcp_standards ==
    /\ pc = "idle"
    /\ \E data_dir \in DataDirs, url \in Urls :
        /\ args' = CallArgs("fetch_hcp_standards", "", data_dir, url)
        /\ Invoke(GetDataDir(data_dir, nntData), HcpRequests(url))
    /\ keys' = <<>>
    /\ UNCHANGED <<nntData, registry, warned, fsFound, sel, pending, acc, first>>

fetch_voneconomo ==
    /\ pc = "idle"
    /\ \E data_dir \in DataDirs, url \in Urls :
        /\ args' = CallArgs("fetch_voneconomo", "", data_dir, url)
        /\ keys' = FreshKeys(VonEconomoKeys, keys)
        /\ Invoke(GetDataDir(data_dir, nntData), VonEconomoRequests(url, registry))
    /\ UNCHANGED <<nntData, registry, warned, fsFound, sel, pending, acc, first>>

\* fetch_annotation on one annotation a: the check, then the delegate
AnnotationOne(a, data_dir, url) ==
    /\ sel' = a
    /\ IF a \notin Elems(AvailableAnnotations(registry))
       THEN RaiseValueError(AvailableAnnotations(registry))
       ELSE Invoke(Join(GetDataDir(data_dir, nntData), <<"ds-annotations">>),
                   AnnotationRequests(a, url, registry))

\* variant: the dict comprehension leaves out the last annotation of the list
AnnotationManyButLast(list) ==
    /\ pc' = "iter"
    /\ pending' = IF list = <<>> THEN list ELSE SubSeq(list, 1, Len(list) - 1)
    /\ acc' = <<>>
    /\ UNCHANGED <<sel, files, fetchDir, nfetch, data, result, error>>

\* fetch_annotation on a list: the dict comprehension starts
AnnotationMany(list) ==
    /\ pc' = "iter"
    /\ pending' = list
    /\ acc' = <<>>
    /\ UNCHANGED <<sel, files, fetchDir, nfetch, data, result, error>>

fetch_annotation ==
    /\ pc = "idle"
    /\ \E data_dir \in DataDirs, url \in Urls :
        \/ \E a \in AnnotationNames \cup {"all"} :
            /\ args' = CallArgs("fetch_annotation", a, data_dir, url)
            /\ IF a = "all"
               THEN AnnotationMany(AvailableAnnotations(registry))
               ELSE /\ AnnotationOne(a, data_dir, url)
                    /\ UNCHANGED <<pending, acc>>
        \/ \E list \in AnnotationLists :
            /\ args' = [fn |-> "fetch_annotation", sel |-> "", isList |-> TRUE,
                        list |-> list, data_dir |-> data_dir, url |-> url]
            /\ AnnotationMany(list)
    /\ keys' = <<>>
    /\ UNCHANGED <<nntData, registry, warned, fsFound, first>>

\* the dict comprehension takes its next annotation, or is through
AnnotationNext ==
    /\ pc = "iter"
    /\ IF pending = <<>>
       THEN /\ pc' = "done"
            /\ result' = [kind |-> "dict", bundle |-> Dict(acc), path |-> <<>>]
            /\ UNCHANGED <<sel, files, fetchDir, nfetch, data, error>>
       ELSE AnnotationOne(Head(pending), args.data_dir, args.url)
    /\ UNCHANGED <<args, nntData, registry, warned, fsFound, keys, pending,
                   acc, first>>

(***************************************************************************)
(* The delegate returns or fails, and the call runs to its end.            *)
(***************************************************************************)
\* the first argument of zip(...) when the fetcher builds its bundle
ZipKeys(fn, s, ks, reg) ==
    CASE fn = "fetch_cammoun2012" -> CammounKeysAfter(s, ks)
      [] fn = "fetch_conte69" -> ConteKeysAfter(ks)
      [] fn = "fetch_connectome" -> ConnectomeKeysAfter(s, reg)
      [] fn = "fetch_vazquez_rodriguez2019" -> VazquezKeys
      [] OTHER -> ks

\* the second argument of zip(...): the regrouped list
Regroup(fn, s, ks, d) ==
    CASE fn = "fetch_cammoun2012" -> CammounRegroup(s, d)
      [] fn = "fetch_conte69" -> ConteRegroup(d)
      [] fn = "fetch_pauli2018" -> Plain(d)
      [] fn = "fetch_fsaverage" -> FsaverageRegroup(ks, d)
      [] fn = "fetch_connectome" -> ConnectomeRegroup(d)
      [] fn = "fetch_vazquez_rodriguez2019" -> VazquezRegroup(d)
      [] fn = "fetch_schaefer2018" -> SchaeferRegroup(s, ks, d)
      [] fn = "fetch_voneconomo" -> VonEconomoRegroup(d)

\* the fetchers that parse what they fetched
Loaders ==
    {"fetch_conte69", "fetch_connectome", "fetch_vazquez_rodriguez2019",
     "fetch_annotation"}

\* the fetcher goes on with the list d it got from the delegate
Continue(d) ==
    /\ pc = "fetch"
    /\ data' = d
    /\ IF args.fn = "fetch_annotation"
       THEN IF args.isList \/ args.sel = "all"
            THEN /\ acc' = Append(acc, <<sel, AnnotationBunch(d)>>)
                 /\ pending' = Tail(pending)
                 /\ pc' = "iter"
                 /\ UNCHANGED <<keys, result, error>>
            ELSE /\ pc' = "done"
                 /\ result' = [kind |-> "Bunch", bundle |-> AnnotationBunch(d),
                               path |-> <<>>]
                 /\ UNCHANGED <<keys, pending, acc, error>>
       ELSE IF args.fn = "fetch_hcp_standards"
       THEN /\ pc' = "done"
            /\ result' = [kind |-> "path", bundle |-> <<>>,
                          path |-> Join(CacheRoot, <<"standard_mesh_atlases">>)]
            /\ UNCHANGED <<keys, pending, acc, error>>
       ELSE /\ keys' = IF args.fn = "fetch_cammoun2012"
                       THEN CammounKeysAfter(sel, keys) ELSE keys
            /\ Return(ZipKeys(args.fn, sel, keys, registry),
                      Regroup(args.fn, sel, keys, d))
            /\ UNCHANGED <<pending, acc>>
    /\ UNCHANGED <<args, nntData, registry, warned, fsFound, sel, files,
                   fetchDir, nfetch, first>>

\* the delegate returns one local path per request, in request order
FetchFilesReturn == Continue(FetchFiles(fetchDir, files))

\* variant: a fetch_annotation that is going through a list catches the
\* failure and returns the annotations it has fetched so far
FetchFilesFailPartial ==
    /\ pc = "fetch"
    /\ IF args.isList
       THEN /\ pc' = "done"
            /\ result' = [kind |-> "dict", bundle |-> Dict(acc), path |-> <<>>]
            /\ UNCHANGED error
       ELSE /\ pc' = "raised"
            /\ error' = [type |-> "FetchFailure", options |-> <<>>]
            /\ UNCHANGED result
    /\ UNCHANGED <<args, nntData, registry, warned, fsFound, sel, keys, files,
                   fetchDir, data, nfetch, pending, acc, first>>

\* the delegate fails (network, checksum, extraction): the failure leaves
\* the fetcher, and with it a fetch_annotation that was going through a list
FetchFilesFail ==
    /\ pc = "fetch"
    /\ pc' = "raised"
    /\ error' = [type |-> "FetchFailure", options |-> <<>>]
    /\ UNCHANGED <<args, nntData, registry, warned, fsFound, sel, keys, files,
                   fetchDir, data, result, nfetch, pending, acc, first>>

\* the delegate returns and the fetcher fails to parse what it fetched
LoaderFail ==
    /\ pc = "fetch"
    /\ args.fn \in Loaders
    /\ data' = FetchFiles(fetchDir, files)
    /\ pc' = "raised"
    /\ error' = [type |-> "ParseFailure", options |-> <<>>]
    /\ UNCHANGED <<args, nntData, registry, warned, fsFound, sel, keys, files,
                   fetchDir, result, nfetch, pending, acc, first>>

\* the caller has the result or the exception; the frame of the call is gone
\* (the next call assigns its own keys before it reads them)
Finish ==
    /\ pc \in {"done", "raised"}
    /\ pc' = "idle"
    /\ first' = IF first.set \/ pc # "done" THEN first
                ELSE [set |-> TRUE, fn |-> args.fn, sel |-> args.sel,
                      isList |-> args.isList, list |-> args.list,
                      fsFound |-> fsFound,
                      paths |-> [i \in DOMAIN files |-> files[i].path],
                      keys |-> DOMAIN result.bundle]
    /\ args' = NoArgs
    /\ warned' = FALSE
    /\ fsFound' = FALSE
    /\ sel' = ""
    /\ files' = <<>>
    /\ fetchDir' = <<>>
    /\ data' = <<>>
    /\ result' = NoResult
    /\ error' = NoError
    /\ nfetch' = 0
    /\ pending' = <<>>
    /\ acc' = <<>>
    /\ UNCHANGED <<nntData, registry, keys>>

Next ==
    \/ fetch_cammoun2012
    \/ fetch_conte69
    \/ fetch_pauli2018
    \/ fetch_fsaverage
    \/ fetch_connectome
    \/ fetch_vazquez_rodriguez2019
    \/ fetch_schaefer2018
    \/ fetch_hcp_standards
    \/ fetch_voneconomo
    \/ fetch_annotation
    \/ AnnotationNext
    \/ FetchFilesReturn
    \/ FetchFilesFail
    \/ LoaderFail
    \/ Finish

Spec == Init /\ [][Next]_vars

(***************************************************************************)
(* One call in which the delegate breaks the order of its answer: two of   *)
(* the paths it returns have changed places.  The fetcher regroups the     *)
(* list as it does any other.                                              *)
(***************************************************************************)
Swap(d, i, j) == [d EXCEPT ![i] = d[j], ![j] = d[i]]

FetchFilesSwapped ==
    \E i \in DOMAIN files, j \in DOMAIN files :
        /\ i < j
        /\ Continue(Swap(FetchFiles(fetchDir, files), i, j))

SwapNext ==
    \/ fetch_cammoun2012
    \/ fetch_conte69
    \/ fetch_pauli2018
    \/ fetch_fsaverage
    \/ fetch_connectome
    \/ fetch_vazquez_rodriguez2019
    \/ fetch_schaefer2018
    \/ fetch_hcp_standards
    \/ fetch_voneconomo
    \/ fetch_annotation
    \/ AnnotationNext
    \/ FetchFilesSwapped

SwapSpec == Init /\ [][SwapNext]_vars

(***************************************************************************)
(* Properties.                                                             *)
(***************************************************************************)
SelectorFetchers ==
    {"fetch_cammoun2012", "fetch_fsaverage", "fetch_schaefer2018",
     "fetch_connectome", "fetch_annotation"}

\* the valid selectors of a fetcher, as the fetcher documents them or as the
\* registry lists them
ValidSelectors(fn) ==
    CASE fn = "fetch_cammoun2012" ->
            {"gcs", "fsaverage", "fsaverage5", "fsaverage6", "fslr32k",
             "MNI152NLin2009aSym"}
      [] fn = "fetch_fsaverage" ->
            {"fsaverage", "fsaverage3", "fsaverage4", "fsaverage5", "fsaverage6"}
      [] fn = "fetch_schaefer2018" ->
            {"fsaverage", "fsaverage5", "fsaverage6", "fslr32k"}
      [] fn = "fetch_connectome" -> DOMAIN registry["ds-connectomes"]
      [] fn = "fetch_annotation" -> DOMAIN registry["ds-annotations"]
      [] OTHER -> {}

\* the selectors a fetcher takes besides the valid ones
Aliases(fn) ==
    CASE fn = "fetch_cammoun2012" -> {"surface", "volume"}
      [] fn = "fetch_annotation" -> {"all"}
      [] OTHER -> {}

\* the running call was given one selector (not a list of annotations)
OneSelector == pc # "idle" /\ args.fn \in SelectorFetchers /\ ~args.isList

\* C1 as stated: every selector outside the valid set raises ValueError, so
\* that the options of the message are exactly the selectors that are taken.
C1_AsStated ==
    (OneSelector /\ args.sel \notin ValidSelectors(args.fn))
        => (pc = "raised" /\ error.type = "ValueError")

\* C1, amended: a ValueError lists exactly the valid selectors of the fetcher
\* and is raised on a selector that is none of them; the delegate is entered
\* on a valid selector only; a single selector that is neither valid nor a
\* deprecated alias ('surface', 'volume' of fetch_cammoun2012) nor 'all' (of
\* fetch_annotation) raises ValueError, and one that is valid or such an alias
\* does not.
C1_SelectorCheck ==
    /\ error.type = "ValueError"
        => /\ args.fn \in SelectorFetchers
           /\ Elems(error.options) = ValidSelectors(args.fn)
           /\ sel \notin ValidSelectors(args.fn)
    /\ (pc = "fetch" /\ args.fn \in SelectorFetchers)
        => sel \in ValidSelectors(args.fn)
    /\ (OneSelector /\ args.sel \notin ValidSelectors(args.fn) \cup Aliases(args.fn))
        => (pc = "raised" /\ error.type = "ValueError")
    /\ (OneSelector /\ args.sel \in ValidSelectors(args.fn) \cup Aliases(args.fn))
        => error.type # "ValueError"

C1_Witness ==
    /\ args.fn = "fetch_cammoun2012"
    /\ args.sel = "bogus"
    /\ pc = "raised"
    /\ error.type = "ValueError"

\* the number of paths the naming convention of a dataset fixes
ExpectedCount(fn, s) ==
    CASE fn = "fetch_cammoun2012" ->
            (CASE s \in {"fslr32k", "fsaverage", "fsaverage5", "fsaverage6"} -> 10
               [] s = "MNI152NLin2009aSym" -> 6
               [] s = "gcs" -> 28)
      [] fn = "fetch_schaefer2018" -> (IF s = "fslr32k" THEN 20 ELSE 40)
      [] fn = "fetch_fsaverage" -> 12
      [] fn = "fetch_conte69" -> 7
      [] fn = "fetch_voneconomo" -> 5

CountedFetchers ==
    {"fetch_cammoun2012", "fetch_schaefer2018", "fetch_fsaverage",
     "fetch_conte69", "fetch_voneconomo"}

\* the running call got past its selector check
Passed == pc \in {"fetch", "done"} \/ (pc = "raised" /\ error.type # "ValueError")

\* C2 as stated: a call with a valid selector requests the number of paths
\* of its naming convention from the delegate (fetch_fsaverage: 12).
C2_AsStated ==
    (Passed /\ args.fn \in CountedFetchers)
        => (nfetch = 1 /\ Len(files) = ExpectedCount(args.fn, sel))

\* C2, amended: whenever a fetcher enters the delegate it requests the number
\* of paths of its naming convention; fetch_fsaverage requests its 12 paths
\* only when the local FreeSurfer lookup fails, and requests nothing from the
\* delegate when the lookup succeeds.
C2_RequestCount ==
    (Passed /\ args.fn \in CountedFetchers)
        => IF args.fn = "fetch_fsaverage" /\ fsFound
           THEN nfetch = 0 /\ files = <<>>
           ELSE nfetch = 1 /\ Len(files) = ExpectedCount(args.fn, sel)

C2_Witness ==
    /\ pc = "fetch"
    /\ args.fn = "fetch_schaefer2018"
    /\ sel = "fslr32k"
    /\ Len(files) = 20

\* the running call returned a bundle of (lh, rh) pairs
PairedDone ==
    /\ pc = "done"
    /\ \/ args.fn = "fetch_cammoun2012"
          /\ sel \in {"fslr32k", "fsaverage", "fsaverage5", "fsaverage6"}
       \/ args.fn = "fetch_fsaverage"
       \/ args.fn = "fetch_schaefer2018"
          /\ sel \in {"fsaverage", "fsaverage5", "fsaverage6"}

\* the keys of the returned bundle whose value holds path p
KeysHolding(bundle, p) ==
    {k \in DOMAIN bundle : \E j \in DOMAIN bundle[k].items : bundle[k].items[j] = p}

\* C3: with pairing arity 2, the flat list of N paths becomes N/2 pairs in
\* the original order: the k-th key (counted from 0) holds (lh = path[2k],
\* rh = path[2k+1]), and every path is in exactly one pair.
C3_Pairing ==
    PairedDone =>
        LET N == Len(data)
            b == result.bundle
        IN  /\ N % 2 = 0
            /\ Len(keys) = N \div 2
            /\ Cardinality(DOMAIN b) = N \div 2
            /\ \A k \in 0..((N \div 2) - 1) :
                /\ keys[k + 1] \in DOMAIN b
                /\ b[keys[k + 1]].kind = "Surface"
                /\ b[keys[k + 1]].items = <<data[2 * k + 1], data[2 * k + 2]>>
            /\ \A i \in 1..N : Cardinality(KeysHolding(b, data[i])) = 1

C3_Witness ==
    /\ PairedDone
    /\ args.fn = "fetch_schaefer2018"
    /\ nfetch = 1
    /\ Len(data) = 40
    /\ Cardinality(DOMAIN result.bundle) = 20

\* the running call returned the bundle of the 'gcs' version
GcsDone == pc = "done" /\ args.fn = "fetch_cammoun2012" /\ sel = "gcs"

\* C4 as stated: the bundle of the 'gcs' version has the five listed keys and
\* its key 'scale500' holds a flat list of three file paths.
C4_AsStated ==
    GcsDone =>
        /\ DOMAIN result.bundle =
            {"scale033", "scale060", "scale125", "scale250", "scale500"}
        /\ result.bundle["scale500"].kind = "list"
        /\ Len(result.bundle["scale500"].items) = 3

\* C4, amended: the bundle of the 'gcs' version has the five listed keys; its
\* key 'scale500' holds a flat list of the six .gcs paths of the three parts
\* of the last scale (left and right of scale500v1, v2, v3, in request order),
\* every other key holds the list of its left and right .gcs path, and the
\* .ctab paths are under no key.
C4_GcsMerge ==
    GcsDone =>
        LET b == result.bundle
        IN  /\ Len(data) = 28
            /\ DOMAIN b = {"scale033", "scale060", "scale125", "scale250", "scale500"}
            /\ b["scale500"] =
                PathList(<<data[17], data[19], data[21], data[23], data[25], data[27]>>)
            /\ \A k \in 1..4 :
                b[CammounKeys[k]] = PathList(<<data[4 * k - 3], data[4 * k - 1]>>)
            /\ \A i \in 1..28 :
                Cardinality(KeysHolding(b, data[i])) = (IF i % 2 = 1 THEN 1 ELSE 0)
            /\ \A i \in 1..28 :
                files[i].path[3] =
                    "atl-Cammoun2012_res-"
                    \o <<"033", "060", "125", "250", "500v1", "500v2", "500v3">>[((i - 1) \div 4) + 1]
                    \o "_hemi-" \o <<"L", "R">>[(((i - 1) \div 2) % 2) + 1]
                    \o "_probabilistic" \o <<".gcs", ".ctab">>[((i - 1) % 2) + 1]

C4_Witness ==
    /\ GcsDone
    /\ Len(result.bundle["scale500"].items) = 6

\* the list the delegate owes the running call: the requests, in order
Ordered == FetchFiles(fetchDir, files)

\* the bundle the running call makes of the list d
Rebundle(d) ==
    IF args.fn = "fetch_annotation" THEN AnnotationBunch(d)
    ELSE Bunch(IF args.fn = "fetch_cammoun2012" THEN keys
               ELSE ZipKeys(args.fn, sel, keys, registry),
               Regroup(args.fn, sel, keys, d))

\* the running call regrouped a list in which two paths had changed places
SwappedDone ==
    /\ pc = "done"
    /\ result.kind = "Bunch"
    /\ nfetch = 1
    /\ data # Ordered

\* the positions of the returned list that do not hold their own path
Moved == {i \in DOMAIN data : data[i] # Ordered[i]}

\* C5 as stated: swapping the paths at any two positions of the flat list
\* changes the key each of the two paths is assigned to.
C5_AsStated ==
    SwappedDone =>
        \A i \in Moved :
            KeysHolding(result.bundle, data[i]) # KeysHolding(Rebundle(Ordered), data[i])

\* C5, amended: the grouping goes by position alone: whatever path stands at
\* a position gets the keys of that position, so that swapping two paths
\* gives each the keys of the other.  The key of a swapped path changes
\* exactly when the two positions belong to different keys; two paths of one
\* group (the lh and rh of a pair), or two that no key holds, keep theirs.
C5_Positional ==
    SwappedDone =>
        LET b0 == Rebundle(Ordered)
        IN  /\ \A i \in DOMAIN data :
                KeysHolding(result.bundle, data[i]) = KeysHolding(b0, Ordered[i])
            /\ \A i \in Moved, j \in Moved :
                i # j =>
                    ((KeysHolding(result.bundle, data[i]) # KeysHolding(b0, data[i]))
                        <=> (KeysHolding(b0, Ordered[i]) # KeysHolding(b0, Ordered[j])))

C5_Witness ==
    /\ SwappedDone
    /\ args.fn = "fetch_voneconomo"
    /\ data[1] = Ordered[2]
    /\ data[2] = Ordered[1]
    /\ KeysHolding(result.bundle, Ordered[1]) = {"ctab"}
    /\ KeysHolding(result.bundle, Ordered[2]) = {"gcs"}

\* the keys the docstring of a fetcher lists for its bundle
DocumentedKeys(fn) ==
    CASE fn = "fetch_cammoun2012" ->
            {"scale033", "scale060", "scale125", "scale250", "scale500"}
      [] fn = "fetch_conte69" -> {"midthickness", "inflated", "vinflated"}
      [] fn = "fetch_pauli2018" -> {"probabilistic", "deterministic"}
      [] fn = "fetch_fsaverage" -> {"surf"}

\* C6: a call with a valid selector returns a bundle whose keys are the keys
\* the fetcher documents, and whose values are made of the local paths the
\* delegate returned.
C6_AsStated ==
    (pc = "done" /\ args.fn \in {"fetch_cammoun2012", "fetch_conte69",
                                 "fetch_pauli2018", "fetch_fsaverage"})
        => /\ DOMAIN result.bundle = DocumentedKeys(args.fn)
           /\ nfetch = 1
           /\ \A k \in DOMAIN result.bundle :
                /\ result.bundle[k].kind \in {"file", "Surface", "list"}
                /\ Elems(result.bundle[k].items) \subseteq Elems(Ordered)

\* C7: a call that ends in the invalid-selector error has not invoked the
\* delegate before.
C7_AsStated == error.type = "ValueError" => nfetch = 0

\* the running call was given a list of annotations (or 'all')
ManyAnnotations ==
    args.fn = "fetch_annotation" /\ (args.isList \/ args.sel = "all")

\* the annotations the running call was asked for
Asked == IF args.isList THEN args.list ELSE AvailableAnnotations(registry)

\* C8: a call for a single selector invokes the delegate at most once; a
\* call that raised (the delegate failed) returned nothing; fetch_annotation
\* on a list invokes the delegate once per annotation, and returns a dict
\* only when every annotation of the list was fetched.
C8_NoRetryNoPartial ==
    /\ (pc # "idle" /\ ~ManyAnnotations) => nfetch <= 1
    /\ error.type = "FetchFailure" => (pc = "raised" /\ nfetch >= 1)
    /\ pc = "raised" => result = NoResult
    /\ pc = "done" => error = NoError
    /\ ManyAnnotations =>
        /\ nfetch <= Len(Asked)
        /\ pc \in {"iter", "done"} => nfetch = Len(acc)
        /\ pc \in {"fetch", "raised"} => nfetch \in {Len(acc), Len(acc) + 1}
        /\ \A i \in DOMAIN acc : acc[i][1] = Asked[i]
        /\ pc = "done" =>
            /\ result.kind = "dict"
            /\ Len(acc) = Len(Asked)
            /\ DOMAIN result.bundle = Elems(Asked)

C8_Witness ==
    /\ pc = "raised"
    /\ error.type = "FetchFailure"
    /\ args.isList
    /\ Len(acc) = 1
    /\ nfetch = 2
    /\ result = NoResult

\* the list `keys` a fetcher starts from
KeyList(fn) ==
    CASE fn = "fetch_cammoun2012" ->
            <<"scale033", "scale060", "scale125", "scale250", "scale500">>
      [] fn = "fetch_conte69" -> <<"midthickness", "inflated", "vinflated">>
      [] fn = "fetch_pauli2018" -> <<"probabilistic", "deterministic", "info">>
      [] fn = "fetch_fsaverage" ->
            <<"orig", "white", "smoothwm", "pial", "inflated", "sphere">>
      [] fn = "fetch_voneconomo" -> <<"gcs", "ctab", "info">>
      [] fn = "fetch_schaefer2018" -> SchaeferKeys
      [] OTHER -> <<>>

\* the running call has the arguments (and the FreeSurfer lookup) of the
\* first call that returned
SameAsFirst ==
    /\ first.set
    /\ first.fn = args.fn
    /\ first.sel = args.sel
    /\ first.isList = args.isList
    /\ first.list = args.list
    /\ first.fsFound = fsFound

\* C9: no call changes the registry; every call starts from the key list of
\* its fetcher, whatever the calls before it did (a repeated
\* fetch_cammoun2012('MNI152NLin2009aSym') has 'info' once); and a call with
\* the arguments of an earlier call requests the same paths and returns the
\* same keys.
C9_Stateless ==
    /\ registry = OsfJson
    /\ pc = "fetch" => keys = KeyList(args.fn)
    /\ pc = "done" =>
        keys = IF args.fn = "fetch_cammoun2012" /\ sel = "MNI152NLin2009aSym"
               THEN KeyList(args.fn) \o <<"info">>
               ELSE KeyList(args.fn)
    /\ (pc = "done" /\ SameAsFirst) =>
        /\ first.paths = [i \in DOMAIN files |-> files[i].path]
        /\ first.keys = DOMAIN result.bundle

C9_Witness ==
    /\ pc = "done"
    /\ SameAsFirst
    /\ args.fn = "fetch_cammoun2012"
    /\ sel = "MNI152NLin2009aSym"
    /\ DOMAIN result.bundle =
        {"scale033", "scale060", "scale125", "scale250", "scale500", "info"}

\* the name of the dataset a fetcher fetches
DatasetName(fn) ==
    CASE fn = "fetch_cammoun2012" -> "atl-cammoun2012"
      [] fn = "fetch_conte69" -> "tpl-conte69"
      [] fn = "fetch_pauli2018" -> "atl-pauli2018"
      [] fn = "fetch_fsaverage" -> "tpl-fsaverage"
      [] fn = "fetch_connectome" -> "ds-connectomes"
      [] fn = "fetch_vazquez_rodriguez2019" -> "ds-vazquez_rodriguez2019"
      [] fn = "fetch_schaefer2018" -> "atl-schaefer2018"
      [] fn = "fetch_hcp_standards" -> "standard_mesh_atlases"
      [] fn = "fetch_voneconomo" -> "atl-voneconomo_koskinas"
      [] fn = "fetch_annotation" -> "ds-annotations"

\* where request i of the running call lands, below the cache root
BelowRoot(i) ==
    LET p == Join(fetchDir, files[i].path)
    IN  SubSeq(p, Len(CacheRoot) + 1, Len(p))

\* request i of the running call lands under the cache root
UnderRoot(i) ==
    LET p == Join(fetchDir, files[i].path)
    IN  Len(p) > Len(CacheRoot) /\ SubSeq(p, 1, Len(CacheRoot)) = CacheRoot

\* C10 as stated: every requested path is <cache_root>/<dataset_name>/<file>,
\* with the version between the two for a dataset that has versions, and no
\* further directory level.
C10_AsStated ==
    pc = "fetch" =>
        \A i \in DOMAIN files :
            /\ UnderRoot(i)
            /\ BelowRoot(i)[1] = DatasetName(args.fn)
            /\ IF args.fn \in SelectorFetchers
               THEN Len(BelowRoot(i)) = 3 /\ BelowRoot(i)[2] = sel
               ELSE Len(BelowRoot(i)) = 2

\* C10, amended: as stated for every fetcher but fetch_fsaverage, whose files
\* lie one directory deeper, in the FreeSurfer layout
\* <cache_root>/tpl-fsaverage/<version>/surf/<file>.
C10_Layout ==
    pc = "fetch" =>
        \A i \in DOMAIN files :
            /\ UnderRoot(i)
            /\ BelowRoot(i)[1] = DatasetName(args.fn)
            /\ IF args.fn = "fetch_fsaverage"
               THEN /\ Len(BelowRoot(i)) = 4
                    /\ BelowRoot(i)[2] = sel
                    /\ BelowRoot(i)[3] = "surf"
               ELSE IF args.fn \in SelectorFetchers
               THEN Len(BelowRoot(i)) = 3 /\ BelowRoot(i)[2] = sel
               ELSE Len(BelowRoot(i)) = 2

C10_Witness ==
    /\ pc = "fetch"
    /\ args.fn = "fetch_connectome"
    /\ sel = "mouse"
    /\ args.data_dir = "/data"
    /\ Join(fetchDir, files[1].path) = <<"/data", "ds-connectomes", "mouse", "acronyms.csv">>

\* the checksum the registry records for request i of a call of fetcher fn
\* on selector s ("none": the dataset is not in the registry)
RegistryMd5(fn, s, i) ==
    CASE fn \in {"fetch_cammoun2012", "fetch_fsaverage", "fetch_connectome",
                 "fetch_schaefer2018", "fetch_annotation"} ->
            registry[DatasetName(fn)][s].md5
      [] fn = "fetch_pauli2018" -> registry[DatasetName(fn)][i].md5
      [] fn = "fetch_hcp_standards" -> "none"
      [] OTHER -> registry[DatasetName(fn)].md5

\* request i of the running call carries the checksum of the registry
CarriesMd5(i) ==
    /\ "md5sum" \in DOMAIN files[i].opts
    /\ files[i].opts.md5sum = RegistryMd5(args.fn, sel, i)

\* C11 as stated: every entry that any fetcher passes to the delegate carries
\* in its options the md5sum the registry records for the dataset.
C11_AsStated ==
    pc = "fetch" => \A i \in DOMAIN files : CarriesMd5(i)

\* C11, amended: every entry that a fetcher other than fetch_hcp_standards
\* passes to the delegate carries in its options the md5sum the registry
\* records for the dataset (for fetch_pauli2018, for that very file); the
\* entries of fetch_hcp_standards carry no md5sum at all.
C11_Integrity ==
    pc = "fetch" =>
        \A i \in DOMAIN files :
            IF args.fn = "fetch_hcp_standards"
            THEN "md5sum" \notin DOMAIN files[i].opts
            ELSE CarriesMd5(i)

C11_Witness ==
    /\ pc = "fetch"
    /\ args.fn = "fetch_schaefer2018"
    /\ sel = "fslr32k"
    /\ Len(files) = 20
    /\ \A i \in DOMAIN files :
        files[i].opts.md5sum = OsfJson["atl-schaefer2018"]["fslr32k"].md5

\* the url the registry records for request i of a call of fetcher fn on
\* selector s ("none": the dataset is not in the registry)
RegistryUrl(fn, s, i) ==
    CASE fn \in {"fetch_cammoun2012", "fetch_fsaverage", "fetch_connectome",
                 "fetch_schaefer2018", "fetch_annotation"} ->
            registry[DatasetName(fn)][s].url
      [] fn = "fetch_pauli2018" -> registry[DatasetName(fn)][i].url
      [] fn = "fetch_hcp_standards" -> "none"
      [] OTHER -> registry[DatasetName(fn)].url

\* C12: every entry requested from the delegate has the caller's url as its
\* source when the caller gave one, and the url of the registry when the
\* caller gave None.
C12_AsStated ==
    pc = "fetch" =>
        \A i \in DOMAIN files :
            files[i].url = IF args.url # "None" THEN args.url
                           ELSE RegistryUrl(args.fn, sel, i)

\* the bundle fetch_annotation returns when it is called on the single
\* annotation a with the cache directory and url of the running call
SingleAnnotation(a) ==
    AnnotationBunch(
        FetchFiles(Join(CacheRoot, <<"ds-annotations">>),
                   AnnotationRequests(a, args.url, registry)))

\* the dict of the single bundles of the annotations of a list
DictOfSingles(list) == [a \in Elems(list) |-> SingleAnnotation(a)]

\* C13: fetch_annotation on a list returns a dict whose keys are exactly the
\* requested annotations, each with the bundle fetch_annotation returns for
\* that annotation alone; on 'all' it returns what it returns on the list
\* available_annotations(); on a single string it returns a bundle with
\* exactly the keys 'data' and 'ref'.
C13_ListAllSingle ==
    (pc = "done" /\ args.fn = "fetch_annotation") =>
        IF args.isList
        THEN /\ result.kind = "dict"
             /\ DOMAIN result.bundle = Elems(args.list)
             /\ result.bundle = DictOfSingles(args.list)
        ELSE IF args.sel = "all"
        THEN /\ result.kind = "dict"
             /\ result.bundle = DictOfSingles(AvailableAnnotations(registry))
        ELSE /\ result.kind = "Bunch"
             /\ DOMAIN result.bundle = {"data", "ref"}
             /\ result.bundle = SingleAnnotation(args.sel)

C13_Witness ==
    /\ pc = "done"
    /\ args.fn = "fetch_annotation"
    /\ args.isList
    /\ args.list = <<"abagen_genepc1", "Myelin_T1wT2w">>
    /\ DOMAIN result.bundle = {"abagen_genepc1", "Myelin_T1wT2w"}
    /\ DOMAIN result.bundle["abagen_genepc1"] = {"data", "ref"}
    /\ result.bundle["abagen_genepc1"] # result.bundle["Myelin_T1wT2w"]

\* the surfaces of fetch_fsaverage
SixSurfaces == {"orig", "white", "smoothwm", "pial", "inflated", "sphere"}

\* the (lh, rh) pair of surface k of the running call's version, below root
SurfacePair(root, k) ==
    [kind |-> "Surface",
     items |-> <<Join(root, <<sel, "surf", "lh." \o k>>),
                 Join(root, <<sel, "surf", "rh." \o k>>)>>]

Basename(p) == p[Len(p)]

\* the five file names of the von Economo-Koskinas atlas, as requested
VonEconomoOrder ==
    <<"atl-vonEconomoKoskinas_hemi-L_probabilistic.gcs",
      "atl-vonEconomoKoskinas_hemi-L_probabilistic.ctab",
      "atl-vonEconomoKoskinas_hemi-R_probabilistic.gcs",
      "atl-vonEconomoKoskinas_hemi-R_probabilistic.ctab",
      "atl-vonEconomoKoskinas_info.csv">>

=============================================================================
